---- MODULE Spec2Model ----
(***************************************************************************)
(* tb_pivot_excel v1: the chunked telemetry fetch, the row unifier, the    *)
(* pivot builder and the period resampler of main.py.                      *)
(*                                                                         *)
(* Wall-clock time of the pivot table is counted in seconds from           *)
(* 2026-01-01 00:00:00 (the first timestamp of test_resample.py), a        *)
(* Thursday.  API time is counted in milliseconds.                         *)
(***************************************************************************)
EXTENDS Integers, Sequences, FiniteSets, TLC

VARIABLES
    df_pivot,      \* _resample_pivot: the pivot table, Timestamp -> (column -> cell)
    agg_map,       \* p["agg_map"]: name -> aggregation function
    sheets_cfg,    \* p["sheets_cfg"]: [week_start |-> ...]
    fi,            \* build_dataframes_from_widget_payload: position in the freq loop
    agg_dict,      \* _resample_pivot: the agg_dict of the latest call
    agg_sheets,    \* build_dataframes_from_widget_payload: granularity key -> table
    p,             \* _parse_payload: the parsed payload
    source,        \* the telemetry source: <<entity id, key>> -> the points it holds
    pc,            \* position of the run
    ei,            \* build_dataframes_from_widget_payload: index of the entity in turn
    t_chunk,       \* _fetch_timeseries: t, the start of the sub-range in turn
    merged,        \* _fetch_timeseries: the chunks merged so far
    nreq,          \* _fetch_timeseries_single: requests sent for the sub-range in turn
    status,        \* _fetch_timeseries_single: r.status_code of the latest response
    data,          \* build_dataframes_from_widget_payload: the latest fetch result
    raw_rows,      \* build_dataframes_from_widget_payload: raw_rows
    returned,      \* what build_dataframes_from_widget_payload returned
    err            \* the exception that ended the run

resampleVars == <<df_pivot, agg_map, sheets_cfg, fi, agg_dict, agg_sheets>>
fetchVars == <<p, source, pc, ei, t_chunk, merged, nreq, status, data, raw_rows,
               returned, err>>
vars == <<resampleVars, fetchVars>>

----------------------------------------------------------------------------
(* Bounds of the model. *)

MaxCoverRows == 2     \* rows of a pivot drawn for the period-coverage cases
MaxRows == 3          \* rows of a pivot drawn for the aggregation cases
MaxVal == 2           \* cell values are 1..MaxVal
MaxYears == 2         \* calendar years the model's calendar covers
MaxPoints == 2        \* points the source holds per entity and key
MaxRawRows == 2       \* raw rows drawn for the pivot builder
MaxSeries == 2        \* points of one key drawn for the row unifier

----------------------------------------------------------------------------
(* Calendar. *)

DaySec == 86400

Min(S) == CHOOSE x \in S : \A y \in S : x <= y
Max(S) == CHOOSE x \in S : \A y \in S : y <= x

IsLeap(y) == (y % 4 = 0 /\ y % 100 # 0) \/ y % 400 = 0
DaysInYear(y) == IF IsLeap(y) THEN 366 ELSE 365
DaysInMonth(y, m) ==
    IF m = 2 THEN (IF IsLeap(y) THEN 29 ELSE 28)
    ELSE IF m \in {4, 6, 9, 11} THEN 30 ELSE 31

Years == 2026 .. (2026 + MaxYears)

\* Day number of January 1 of year y.
YearStartDay[y \in Years] ==
    IF y = 2026 THEN 0 ELSE YearStartDay[y - 1] + DaysInYear(y - 1)

\* Day number of the first day of month m of year y.
MonthStartDay[ym \in Years \X (1..12)] ==
    IF ym[2] = 1 THEN YearStartDay[ym[1]]
    ELSE MonthStartDay[<<ym[1], ym[2] - 1>>] + DaysInMonth(ym[1], ym[2] - 1)

CalDays == 0 .. (YearStartDay[2026 + MaxYears] - 1)

YearOfDay[d \in CalDays] ==
    CHOOSE y \in Years : YearStartDay[y] <= d /\ d < YearStartDay[y] + DaysInYear(y)

MonthOfDay[d \in CalDays] ==
    LET y == YearOfDay[d]
    IN  CHOOSE m \in 1..12 :
            /\ MonthStartDay[<<y, m>>] <= d
            /\ d < MonthStartDay[<<y, m>>] + DaysInMonth(y, m)

\* Timestamp.date(), as a day number; Timestamp.normalize().
date(ts) == ts \div DaySec
normalize(ts) == ts - (ts % DaySec)

\* datetime.weekday(): Monday = 0 .. Sunday = 6 (day 0 is a Thursday).
weekday(d) == (d + 3) % 7

\* ts + pd.offsets.MonthEnd(1): the next month end (the time of day is kept).
MonthEnd1(ts) ==
    LET d == date(ts)
        y == YearOfDay[d]
        m == MonthOfDay[d]
        last == MonthStartDay[<<y, m>>] + DaysInMonth(y, m) - 1
        ny == IF m = 12 THEN y + 1 ELSE y
        nm == IF m = 12 THEN 1 ELSE m + 1
    IN  IF d < last THEN last * DaySec + (ts % DaySec)
        ELSE (last + DaysInMonth(ny, nm)) * DaySec + (ts % DaySec)

\* ts + pd.offsets.YearEnd(1): the next December 31 (the time of day is kept).
YearEnd1(ts) ==
    LET d == date(ts)
        y == YearOfDay[d]
        last == YearStartDay[y] + DaysInYear(y) - 1
    IN  IF d < last THEN last * DaySec + (ts % DaySec)
        ELSE (last + DaysInYear(y + 1)) * DaySec + (ts % DaySec)

----------------------------------------------------------------------------
(* Cell values: NaN, or a rational in lowest terms (a mean need not be an  *)
(* integer).                                                               *)

NaN == [num |-> 0, den |-> 0]

RECURSIVE Gcd(_, _)
Gcd(a, b) == IF b = 0 THEN a ELSE Gcd(b, a % b)

Rat(n, d) == LET g == Gcd(n, d) IN [num |-> n \div g, den |-> d \div g]

Num(v) == Rat(v, 1)

RECURSIVE SumOf(_, _)
\* Sum of f[x] over the finite set S.
SumOf(f, S) ==
    IF S = {} THEN 0
    ELSE LET x == CHOOSE x \in S : TRUE IN f[x] + SumOf(f, S \ {x})

----------------------------------------------------------------------------
(* Configuration: settings.py. *)

\* DEFAULT_REPORT_CONFIG["agg_map"]
DefaultAggMap == [k \in {"default"} |-> "mean"]

\* DEFAULT_REPORT_CONFIG["sheets"], the week_start entry
DefaultSheets == [k \in {"week_start"} |-> "Sunday"]

EmptyMap == [k \in {} |-> ""]

\* {**base, **over}
Merged(base, over) ==
    [k \in DOMAIN base \cup DOMAIN over |->
        IF k \in DOMAIN over THEN over[k] ELSE base[k]]

\* resolve_config, one merged section: None keeps the defaults, {} empties the
\* section, anything else is merged over the defaults.
None == [k \in {"None"} |-> "None"]
resolve_section(defaults, pa) ==
    IF pa = None THEN defaults
    ELSE IF DOMAIN pa = {} THEN EmptyMap
    ELSE Merged(defaults, pa)

----------------------------------------------------------------------------
(* 3. Aggregation helpers. *)

\* Line 416: the pivot column of an (asset, key) pair.
ColName(asset, key) == asset \o " " \o key

\* agg_map.get(key) or agg_map.get("default") or "mean"
_get_agg_func(key, am) ==
    IF key \in DOMAIN am THEN am[key]
    ELSE IF "default" \in DOMAIN am THEN am["default"]
    ELSE "mean"

\* str.lower() on the week-start names.
lower(s) == IF s \in {"Sunday", "sunday"} THEN "sunday" ELSE "monday"

_week_start_offset(week_start) == IF lower(week_start) = "sunday" THEN 6 ELSE 0

_build_agg_dict(data_cols, am) ==
    [col \in data_cols |-> _get_agg_func(col, am)]

\* Lines 205-209: the pandas frequency string.
FreqStr(freq, sc) ==
    IF freq = "W"
    THEN LET offset == _week_start_offset(
                 IF "week_start" \in DOMAIN sc THEN sc["week_start"] ELSE "Sunday")
         IN  IF offset = 6 THEN "W-SAT" ELSE "W-SUN"
    ELSE freq

\* df.resample(freq_str): the label of the bin that holds ts.  D and MS and YS
\* bins are closed on the left and labelled by their start; a W-<day> bin runs
\* from the day after the previous <day> to the end of <day> and is labelled by
\* <day> at midnight.
BinLabel(freq_str, ts) ==
    LET d == date(ts)
    IN  CASE freq_str = "D" -> d * DaySec
          [] freq_str = "W-SAT" -> (d + ((5 - weekday(d)) % 7)) * DaySec
          [] freq_str = "W-SUN" -> (d + ((6 - weekday(d)) % 7)) * DaySec
          [] freq_str = "MS" -> MonthStartDay[<<YearOfDay[d], MonthOfDay[d]>>] * DaySec
          [] freq_str = "YS" -> YearStartDay[YearOfDay[d]] * DaySec

\* df.resample(freq_str): the labels of all bins from the first row's to the
\* last row's, the empty ones included.
BinLabels(freq_str, df) ==
    LET lo == BinLabel(freq_str, Min(DOMAIN df))
        hi == BinLabel(freq_str, Max(DOMAIN df))
    IN  {d * DaySec : d \in {e \in date(lo)..date(hi) :
                                BinLabel(freq_str, e * DaySec) = e * DaySec}}

\* A faulty Aggregate: "first" and "last" take the cell of the earliest and of
\* the latest row, NaN or not.
Aggregate_NoSkip(func, df, G, col) ==
    LET present == {t \in G : df[t][col] # NaN}
        val == [t \in present |-> df[t][col].num]
    IN  IF func = "sum" THEN Num(SumOf(val, present))
        ELSE IF present = {} THEN NaN
        ELSE CASE func = "first" -> df[Min(G)][col]
               [] func = "last" -> df[Max(G)][col]
               [] func = "min" -> Num(Min({val[t] : t \in present}))
               [] func = "max" -> Num(Max({val[t] : t \in present}))
               [] func = "mean" -> Rat(SumOf(val, present), Cardinality(present))

\* One pandas aggregation over the cells of column col in the rows G of df.
\* NaN cells are skipped; the sum of no cell is 0, every other function of no
\* cell is NaN.
Aggregate(func, df, G, col) ==
    LET present == {t \in G : df[t][col] # NaN}
        val == [t \in present |-> df[t][col].num]
    IN  IF func = "sum" THEN Num(SumOf(val, present))
        ELSE IF present = {} THEN NaN
        ELSE CASE func = "first" -> df[Min(present)][col]
               [] func = "last" -> df[Max(present)][col]
               [] func = "min" -> Num(Min({val[t] : t \in present}))
               [] func = "max" -> Num(Max({val[t] : t \in present}))
               [] func = "mean" -> Rat(SumOf(val, present), Cardinality(present))

\* A faulty PeriodStart: a week is dated by its label, the last day.
PeriodStart_IsLabel(freq, period_end) ==
    CASE freq = "D" -> normalize(period_end)
      [] OTHER -> period_end

\* Lines 218-233: the period start of a resampled row.
PeriodStart(freq, period_end) ==
    CASE freq = "D" -> normalize(period_end)
      [] freq = "W" -> period_end - 6 * DaySec
      [] OTHER -> period_end

\* A faulty PeriodEndExcl: a day ends where it starts.
PeriodEndExcl_NoDayEnd(freq, period_end) ==
    CASE freq = "D" -> normalize(period_end)
      [] freq = "W" -> period_end
      [] freq = "MS" -> normalize(MonthEnd1(period_end)) + DaySec - 1
      [] freq = "YS" -> YearEnd1(period_end)
      [] OTHER -> period_end

\* Lines 218-233: period_end_excl of a resampled row.
PeriodEndExcl(freq, period_end) ==
    CASE freq = "D" -> normalize(period_end) + DaySec - 1
      [] freq = "W" -> period_end
      [] freq = "MS" -> normalize(MonthEnd1(period_end)) + DaySec - 1
      [] freq = "YS" -> YearEnd1(period_end)
      [] OTHER -> period_end

\* A faulty IsComplete: the check of lines 237-238 is missing.
IsComplete_NoFirstDayCheck(freq, period_end, data_start, data_end) ==
    /\ PeriodStart(freq, period_end) >= normalize(data_start)
    /\ PeriodEndExcl(freq, period_end) <= data_end

\* Lines 235-239: whether the resampled row is kept.
IsComplete(freq, period_end, data_start, data_end) ==
    LET period_start == PeriodStart(freq, period_end)
        period_end_excl == PeriodEndExcl(freq, period_end)
        first_day_complete == (data_start = normalize(data_start))
    IN  /\ period_start >= normalize(data_start)
        /\ period_end_excl <= data_end
        /\ ~(date(period_start) = date(data_start) /\ ~first_day_complete)

\* The columns of a pivot table (every row has the same ones).
Columns(df) == DOMAIN df[CHOOSE t \in DOMAIN df : TRUE]

\* The label (period_end) of the resampled row whose period starts on day dt.
LabelOfStart(freq, dt) ==
    IF freq = "W" THEN (dt + 6) * DaySec ELSE dt * DaySec

\* Lines 216-247: the kept rows of df_resampled, by the Date of each.
CompleteRows(df, freq, freq_str, ad, data_start, data_end) ==
    [dt \in {date(PeriodStart(freq, l)) :
                l \in {k \in BinLabels(freq_str, df) :
                          IsComplete(freq, k, data_start, data_end)}} |->
        [col \in DOMAIN ad |->
            Aggregate(ad[col], df,
                      {t \in DOMAIN df :
                          BinLabel(freq_str, t) = LabelOfStart(freq, dt)},
                      col)]]

\* _resample_pivot.  The result maps the Date of each kept row (a day number)
\* to the row's cells; its rows are in ascending Date order.  pd.DataFrame(),
\* the empty result, is the table of no row.
_resample_pivot(df, freq, am, sc) ==
    CompleteRows(df, freq, FreqStr(freq, sc),
                 _build_agg_dict(Columns(df), am),
                 Min(DOMAIN df), Max(DOMAIN df))

----------------------------------------------------------------------------
(* 2. ThingsBoard fetch.  A point is [ts, value]; a KeyedSeries (a Python  *)
(* dict, which keeps insertion order) is a sequence of <<key, points>>.    *)

_MAX_INTERVALS_PER_REQUEST == 700

\* settings.py: the backend safety limits.
MAX_ENTITIES == 500
MAX_KEYS == 100
MAX_POINTS_PER_KEY_PER_ENTITY == 10000

\* Lines 71-79 of _parse_payload: the caps on the entities, the keys and the
\* limit of a payload; no limit (None) is 0.
_parse_payload(payload) ==
    LET limit == IF payload.limit = 0 THEN MAX_POINTS_PER_KEY_PER_ENTITY
                 ELSE payload.limit
    IN  [payload EXCEPT
            !.entities = SubSeq(payload.entities, 1,
                                Min({Len(payload.entities), MAX_ENTITIES})),
            !.keys = SubSeq(payload.keys, 1, Min({Len(payload.keys), MAX_KEYS})),
            !.limit = Min({limit, MAX_POINTS_PER_KEY_PER_ENTITY})]

\* Line 145 and 148: `interval and agg != "NONE"`.  No interval (None) is 0.
Active(pp) == pp.interval # 0 /\ pp.agg # "NONE"

\* Lines 149-150: n_intervals = (end_ts - start_ts) / interval exceeds the cap.
Chunked(pp) ==
    Active(pp) /\ pp.endTs - pp.startTs > _MAX_INTERVALS_PER_REQUEST * pp.interval

\* Line 151.
chunk_ms(pp) == _MAX_INTERVALS_PER_REQUEST * pp.interval

RECURSIVE SortedTies(_)
\* The points of the set S, which share their timestamp, one after another.
SortedTies(S) ==
    IF S = {} THEN <<>>
    ELSE LET m == CHOOSE x \in S : \A y \in S : x.ts <= y.ts
         IN  <<m>> \o SortedTies(S \ {m})

RECURSIVE SortedIn(_, _, _)
\* The points of the set S, stamped within lo..hi, in ascending timestamp
\* order: the lower half of the range, then the upper half.
SortedIn(S, lo, hi) ==
    IF S = {} THEN <<>>
    ELSE IF lo = hi THEN SortedTies(S)
    ELSE LET mid == (lo + hi) \div 2
         IN  SortedIn({x \in S : x.ts <= mid}, lo, mid)
                \o SortedIn({x \in S : x.ts > mid}, mid + 1, hi)

\* The points of the set S in ascending timestamp order.
SortedByTs(S) ==
    IF S = {} THEN <<>>
    ELSE SortedIn(S, Min({x.ts : x \in S}), Max({x.ts : x \in S}))

\* r.json() of one request: for every requested key that has one, the points
\* the source holds with start_ts <= ts <= end_ts.
SourceResponse(src, id, keys, start_ts, end_ts) ==
    LET pts(k) == {pt \in src[<<id, k>>] : start_ts <= pt.ts /\ pt.ts <= end_ts}
    IN  SelectSeq([i \in 1..Len(keys) |-> <<keys[i], SortedByTs(pts(keys[i]))>>],
                  LAMBDA e : e[2] # <<>>)

\* limit={limit} of line 124: the source returns at most limit points of a
\* key to one request.
Limited(resp, limit) ==
    [i \in 1..Len(resp) |->
        <<resp[i][1], SubSeq(resp[i][2], 1, Min({limit, Len(resp[i][2])}))>>]

KeysOf(dict) == {dict[i][1] : i \in 1..Len(dict)}

\* merged.setdefault(key, []).extend(points)
Extend(dict, key, points) ==
    IF key \in KeysOf(dict)
    THEN [i \in 1..Len(dict) |->
             IF dict[i][1] = key THEN <<key, dict[i][2] \o points>> ELSE dict[i]]
    ELSE Append(dict, <<key, points>>)

RECURSIVE MergeChunk(_, _)
\* Lines 160-161: for key, points in chunk.items(): ...
MergeChunk(dict, chunk) ==
    IF chunk = <<>> THEN dict
    ELSE MergeChunk(Extend(dict, chunk[1][1], chunk[1][2]), Tail(chunk))

RECURSIVE Flatten(_)
\* The (key, point) pairs of a KeyedSeries in iteration order.
Flatten(dict) ==
    IF dict = <<>> THEN <<>>
    ELSE [i \in 1..Len(dict[1][2]) |-> <<dict[1][1], dict[1][2][i]>>]
            \o Flatten(Tail(dict))

\* p.get("ts") of a point without a timestamp (None).
NoTs == -1

\* A faulty PutCell: a later point replaces the whole row of its timestamp.
PutCell_WholeRow(rows, entity_name, k, pt) ==
    LET fresh == [ts |-> pt.ts, entity |-> entity_name,
                  cells |-> [c \in {k} |-> pt.value]]
    IN  IF \E i \in 1..Len(rows) : rows[i].ts = pt.ts
        THEN [i \in 1..Len(rows) |->
                 IF rows[i].ts = pt.ts THEN fresh ELSE rows[i]]
        ELSE Append(rows, fresh)

\* Lines 178-179: rows.setdefault(ts, {...}); rows[ts][k] = p.get("value").
PutCell(rows, entity_name, k, pt) ==
    LET put(r) == [r EXCEPT !.cells =
                      [c \in DOMAIN r.cells \cup {k} |->
                          IF c = k THEN pt.value ELSE r.cells[c]]]
        fresh == [ts |-> pt.ts, entity |-> entity_name, cells |-> EmptyMap]
    IN  IF \E i \in 1..Len(rows) : rows[i].ts = pt.ts
        THEN [i \in 1..Len(rows) |->
                 IF rows[i].ts = pt.ts THEN put(rows[i]) ELSE rows[i]]
        ELSE Append(rows, put(fresh))

RECURSIVE UnifyPairs(_, _, _)
\* Lines 173-179: the loop over the points; a point without ts is skipped.
UnifyPairs(rows, entity_name, pairs) ==
    IF pairs = <<>> THEN rows
    ELSE UnifyPairs(IF pairs[1][2].ts = NoTs THEN rows
                    ELSE PutCell(rows, entity_name, pairs[1][1], pairs[1][2]),
                    entity_name, Tail(pairs))

\* _to_raw_rows: one row per timestamp, in order of first appearance.
_to_raw_rows(entity_name, data_dict) ==
    UnifyPairs(<<>>, entity_name, Flatten(data_dict))

----------------------------------------------------------------------------
(* 5. Core logic: the tables of build_dataframes_from_widget_payload. *)

\* tz_convert(p["timezone"]).tz_localize(None): the wall clock of the zone, in
\* ms.  Asia/Bangkok (DEFAULT_TIMEZONE) is UTC+7 all year.
WallClock(ts, tz) == IF tz = "Asia/Bangkok" THEN ts + 7 * 3600000 ELSE ts

\* A faulty pivot_ts_ms: the timestamps are never snapped.
pivot_ts_ms_NoSnap(rows, pp) == [i \in 1..Len(rows) |-> rows[i].ts]

\* Lines 389-393: pivot_ts_ms, row by row.
pivot_ts_ms(rows, pp) ==
    [i \in 1..Len(rows) |->
        IF pp.agg # "NONE" /\ pp.interval # 0
        THEN rows[i].ts - (rows[i].ts % pp.interval)
        ELSE rows[i].ts]

\* The key columns of pd.DataFrame(raw_rows).
RawColumns(rows) == UNION {DOMAIN rows[i].cells : i \in 1..Len(rows)}

\* Lines 396-405 and 408-413: a table of the raw rows under the timestamps
\* ts_ms, with the key columns of p["keys"] that the rows have.
Stamped(rows, ts_ms, pp) ==
    [i \in 1..Len(rows) |->
        [Timestamp |-> WallClock(ts_ms[i], pp.timezone),
         Asset |-> rows[i].entity,
         cells |-> [k \in {pp.keys[j] : j \in 1..Len(pp.keys)} \cap RawColumns(rows) |->
                       IF k \in DOMAIN rows[i].cells THEN rows[i].cells[k] ELSE NaN]]]

\* aggfunc="first" over the rows of one (Timestamp, Asset Name) group: the first
\* cell of key k that is not NaN.
FirstCell(src, ts, asset, k) ==
    LET G == {i \in 1..Len(src) :
                 /\ src[i].Timestamp = ts
                 /\ src[i].Asset = asset
                 /\ src[i].cells[k] # NaN}
    IN  IF G = {} THEN NaN ELSE src[Min(G)].cells[k]

\* Lines 415-417: pivot_table; rows and columns without any value are dropped.
PivotTable(src, keys) ==
    LET K == {keys[j] : j \in 1..Len(keys)}
        A == {src[i].Asset : i \in 1..Len(src)}
        T == {src[i].Timestamp : i \in 1..Len(src)}
        idx == {ts \in T : \E a \in A, k \in K : FirstCell(src, ts, a, k) # NaN}
        cols == {ak \in A \X K :
                    \E ts \in idx : FirstCell(src, ts, ak[1], ak[2]) # NaN}
    IN  [ts \in idx |->
            [c \in {ColName(ak[1], ak[2]) : ak \in cols} |->
                LET ak == CHOOSE x \in cols : ColName(x[1], x[2]) = c
                IN  FirstCell(src, ts, ak[1], ak[2])]]

RECURSIVE SortDesc(_)
\* sort_values("Timestamp", ascending=False); equal timestamps keep their order.
SortDesc(tbl) ==
    IF tbl = <<>> THEN <<>>
    ELSE LET m == Min({i \in 1..Len(tbl) :
                          \A j \in 1..Len(tbl) : tbl[j].Timestamp <= tbl[i].Timestamp})
         IN  <<tbl[m]>> \o SortDesc([j \in 1..(Len(tbl) - 1) |->
                                        IF j < m THEN tbl[j] ELSE tbl[j + 1]])

RECURSIVE IndexRows(_, _)
\* Line 417: sort_index().reset_index(): the rows of the pivot by ascending
\* Timestamp.
IndexRows(pv, idx) ==
    IF idx = {} THEN <<>>
    ELSE <<[Timestamp |-> Min(idx), cells |-> pv[Min(idx)]]>>
            \o IndexRows(pv, idx \ {Min(idx)})

\* The code points of the entity names and metric keys the model uses: Python
\* compares strings code point by code point.
Chars ==
    [n \in {"asset1", "asset2", "key1", "key2", "A", "A B", "C", "Z"} |->
        CASE n = "asset1" -> <<97, 115, 115, 101, 116, 49>>
          [] n = "asset2" -> <<97, 115, 115, 101, 116, 50>>
          [] n = "key1" -> <<107, 101, 121, 49>>
          [] n = "key2" -> <<107, 101, 121, 50>>
          [] n = "A" -> <<65>>
          [] n = "A B" -> <<65, 32, 66>>
          [] n = "C" -> <<67>>
          [] n = "Z" -> <<90>>]

\* The code points of the column name c, f"{asset} {key}" (line 416).
ColChars(c) ==
    LET ak == CHOOSE x \in (DOMAIN Chars) \X (DOMAIN Chars) : ColName(x[1], x[2]) = c
    IN  Chars[ak[1]] \o <<32>> \o Chars[ak[2]]

\* Python's < on strings.
StrLess(a, b) ==
    \E i \in 1..(Len(b)) :
        /\ \A j \in 1..(i - 1) : j <= Len(a) /\ a[j] = b[j]
        /\ \/ i = Len(a) + 1
           \/ i <= Len(a) /\ a[i] < b[i]

\* Line 421: the sort key of a column, (c.split(" ", 1)[0], c.split(" ", 1)[1]
\* if " " in c else "").
SplitKey(cs) ==
    LET sp == {i \in 1..Len(cs) : cs[i] = 32}
    IN  IF sp = {} THEN <<cs, <<>> >>
        ELSE <<SubSeq(cs, 1, Min(sp) - 1), SubSeq(cs, Min(sp) + 1, Len(cs))>>

\* Python's < on pairs of strings.
PairLess(x, y) == StrLess(x[1], y[1]) \/ (x[1] = y[1] /\ StrLess(x[2], y[2]))

RECURSIVE SortedCols(_)
\* Line 421: sorted(remaining, key=...).
SortedCols(S) ==
    IF S = {} THEN <<>>
    ELSE LET m == CHOOSE c \in S :
                     \A d \in S \ {c} : PairLess(SplitKey(ColChars(c)),
                                                 SplitKey(ColChars(d)))
         IN  <<m>> \o SortedCols(S \ {m})

\* Lines 419-422: the column order of the pivot; column_map is the sequence of
\* the keys of p["column_map"].
ColumnOrder(cols, column_map) ==
    LET col_order == SelectSeq(column_map, LAMBDA c : c \in cols)
        remaining == cols \ {col_order[i] : i \in 1..Len(col_order)}
    IN  <<"Timestamp">> \o col_order \o SortedCols(remaining)

NoResult == [status |-> "none"]

\* Lines 382-384: the return of an empty fetch.
EmptyTables == [status |-> "returned", df_raw |-> <<>>, df_pivot |-> <<>>]

\* Lines 386-426: the raw table and the pivot table.
Tables(rows, pp) ==
    LET raw == Stamped(rows, [i \in 1..Len(rows) |-> rows[i].ts], pp)
        src == Stamped(rows, pivot_ts_ms(rows, pp), pp)
        pv == PivotTable(src, pp.keys)
        pivot == IndexRows(pv, DOMAIN pv)
    IN  [status |-> "returned",
         df_raw |-> IF pp.order = "DESC" THEN SortDesc(raw) ELSE raw,
         df_pivot |-> IF pp.order = "DESC" THEN SortDesc(pivot) ELSE pivot,
         columns |-> ColumnOrder(UNION {DOMAIN pv[ts] : ts \in DOMAIN pv},
                                 pp.column_map)]

\* Line 415: pivot_table(values=p["keys"]) raises KeyError for a key that is no
\* column of the table.
MissingKey(rows, pp) ==
    \E j \in 1..Len(pp.keys) : pp.keys[j] \notin RawColumns(rows)

----------------------------------------------------------------------------
(* The resampling loop of build_dataframes_from_widget_payload, on pivot   *)
(* tables drawn from bounded sets.                                         *)

Stamp(day, tod) == day * DaySec + tod

\* Days and times of day around week, month and year boundaries of 2026:
\* Thu Jan 1, Sat Jan 3, Sun Jan 4, Mon Jan 5, Sat Jan 10, Sun Jan 11,
\* Sat Jan 31, Sun Feb 1, Thu Dec 31, Fri Jan 1 2027; 00:00:00, 10:00:00,
\* 12:00:00, 14:00:00, 23:59:59.
CoverStamps ==
    {Stamp(d, s) : d \in {0, 2, 3, 4, 9, 10, 30, 31, 364, 365},
                   s \in {0, 36000, 43200, 50400, 86399}}

\* February 2026 (Sun Feb 1 .. Sat Feb 28): Feb 1 00:00 and 12:00, Sat Feb 7
\* 12:00, Sun Feb 8 00:00, Sun Mar 1 00:00.
AggStamps ==
    {Stamp(31, 0), Stamp(31, 43200), Stamp(37, 43200), Stamp(38, 0), Stamp(59, 0)}

Cells == {NaN} \cup {Num(v) : v \in 1..MaxVal}
Cells2 == {NaN, Num(1)}

RECURSIVE SetsUpTo(_, _)
\* The subsets of S of at most n elements.
SetsUpTo(S, n) ==
    IF n = 0 THEN {{}}
    ELSE LET prev == SetsUpTo(S, n - 1)
         IN  prev \cup {T \cup {x} : T \in prev, x \in S}

SubsetsUpTo(S, n) == SetsUpTo(S, n) \ {{}}

\* pivot_table keeps no row and no column whose cells are all NaN.
IsPivot(df) ==
    /\ \A t \in DOMAIN df : \E c \in DOMAIN df[t] : df[t][c] # NaN
    /\ \A c \in Columns(df) : \E t \in DOMAIN df : df[t][c] # NaN

\* One column, every cell 1: only the timestamps matter to the period filter.
CoverPivots ==
    {[t \in T |-> [c \in {ColName("asset1", "key1")} |-> Num(1)]] :
        T \in SubsetsUpTo(CoverStamps, MaxCoverRows)}

AggPivots ==
    UNION {{df \in [T -> {r \in [{ColName("asset1", "key1"),
                                   ColName("asset1", "key2")} -> Cells] :
                                r[ColName("asset1", "key2")] \in Cells2}] :
               IsPivot(df)} :
              T \in SubsetsUpTo(AggStamps, MaxRows)}

\* reportConfig.agg_map as the payload gives it.
AggOverrides ==
    {None,
     EmptyMap,
     [k \in {"default"} |-> "last"],
     [k \in {"key1"} |-> "sum"],
     [k \in {ColName("asset1", "key1")} |-> "sum"],
     [k \in {ColName("asset1", "key1"), "default"} |->
         IF k = "default" THEN "max" ELSE "first"],
     [k \in {ColName("asset1", "key1"), "key2", "default"} |->
         IF k = "default" THEN "min" ELSE "max"],
     [k \in {ColName("asset1", "key1"), ColName("asset1", "key2")} |->
         IF k = ColName("asset1", "key1") THEN "min" ELSE "sum"]}

\* reportConfig.sheets as the payload gives it.
SheetsOverrides ==
    {None, EmptyMap, [k \in {"week_start"} |-> "Monday"]}

\* Line 432: the loop's (freq, key) pairs.
Freqs == << <<"D", "daily">>, <<"W", "weekly">>, <<"MS", "monthly">>,
            <<"YS", "yearly">> >>

\* The run's own variables while only the resampling loop is looked at.
FetchIdle ==
    /\ p = EmptyMap
    /\ source = EmptyMap
    /\ pc = "resample"
    /\ ei = 0
    /\ t_chunk = 0
    /\ merged = <<>>
    /\ nreq = 0
    /\ status = 0
    /\ data = <<>>
    /\ raw_rows = <<>>
    /\ returned = NoResult
    /\ err = ""

InitResample ==
    /\ \/ /\ df_pivot \in CoverPivots
          /\ agg_map = resolve_section(DefaultAggMap, None)
       \/ /\ df_pivot \in AggPivots
          /\ \E pa \in AggOverrides : agg_map = resolve_section(DefaultAggMap, pa)
    /\ \E ps \in SheetsOverrides : sheets_cfg = resolve_section(DefaultSheets, ps)
    /\ fi = 1
    /\ agg_dict = EmptyMap
    /\ agg_sheets = EmptyMap
    /\ FetchIdle

\* Lines 432-435: one iteration of the loop.
ResampleNext ==
    /\ pc = "resample"
    /\ fi <= Len(Freqs)
    /\ LET freq == Freqs[fi][1]
           key == Freqs[fi][2]
           df_agg == _resample_pivot(df_pivot, freq, agg_map, sheets_cfg)
       IN  /\ agg_dict' = _build_agg_dict(Columns(df_pivot), agg_map)
           /\ agg_sheets' =
                 IF DOMAIN df_agg # {}
                 THEN [k \in DOMAIN agg_sheets \cup {key} |->
                          IF k = key THEN df_agg ELSE agg_sheets[k]]
                 ELSE agg_sheets
    /\ fi' = fi + 1
    /\ UNCHANGED <<df_pivot, agg_map, sheets_cfg, fetchVars>>

NextResample == ResampleNext

SpecResample == InitResample /\ [][NextResample]_vars

----------------------------------------------------------------------------
(* The run of build_dataframes_from_widget_payload up to the pivot table   *)
(* (lines 369-426), on payloads and source data drawn from bounded sets.   *)

\* The entities and keys of the payload.
Shapes ==
    {<< <<[id |-> "e1", name |-> "asset1"]>>, <<"key1">> >>,
     << <<[id |-> "e1", name |-> "asset1"], [id |-> "e2", name |-> "asset2"]>>,
        <<"key1">> >>,
     << <<[id |-> "e1", name |-> "asset1"]>>, <<"key1", "key2">> >>}

\* A 2 ms interval: 700 intervals end at 1400.
Payloads ==
    {[timezone |-> "Asia/Bangkok", startTs |-> 0, endTs |-> e,
      entities |-> sh[1], keys |-> sh[2], agg |-> a, interval |-> iv,
      order |-> o, column_map |-> <<>>,
      limit |-> MAX_POINTS_PER_KEY_PER_ENTITY] :
        e \in {1400, 1401, 2800}, sh \in Shapes, a \in {"NONE", "AVG"},
        iv \in {0, 2}, o \in {"ASC", "DESC"}}

\* The timestamps the source may hold a point at: the start, the two sides of
\* the first chunk seam, the end.
PointStamps(pp) == {0, 1399, 1400, pp.endTs}

PointSets(pp) ==
    {{[ts |-> x, value |-> Num(1 + (x % MaxVal))] : x \in X} :
        X \in SetsUpTo(PointStamps(pp), MaxPoints)}

Sources(pp) ==
    [{<<pp.entities[i].id, pp.keys[j]>> :
         i \in 1..Len(pp.entities), j \in 1..Len(pp.keys)} -> PointSets(pp)]

ResampleIdle ==
    /\ df_pivot = EmptyMap
    /\ agg_map = EmptyMap
    /\ sheets_cfg = EmptyMap
    /\ fi = 0
    /\ agg_dict = EmptyMap
    /\ agg_sheets = EmptyMap

Init ==
    /\ p \in Payloads
    /\ source \in Sources(p)
    /\ pc = "entity"
    /\ ei = 1
    /\ t_chunk = 0
    /\ merged = <<>>
    /\ nreq = 0
    /\ status = 0
    /\ data = <<>>
    /\ raw_rows = <<>>
    /\ returned = NoResult
    /\ err = ""
    /\ ResampleIdle

\* A faulty chunk_end: the last sub-range is not truncated at end_ts.
chunk_end_NoTruncate == IF Chunked(p) THEN t_chunk + chunk_ms(p) ELSE p.endTs

\* Line 155, and lines 165-168 for the unsplit request.
chunk_end == IF Chunked(p) THEN Min({t_chunk + chunk_ms(p), p.endTs}) ELSE p.endTs

\* A faulty NeedsRefresh: every response but 200 makes the token be refreshed.
NeedsRefresh_AnyFailure(st) == st # 200

\* Line 128: the response that makes the token be refreshed.
NeedsRefresh(st) == st = 401

\* Lines 137-139: r.ok, the response that raise_for_status lets through.
Ok(st) == st < 400

\* A faulty OnRaise: the exception is caught and what was fetched is returned.
OnRaise_Partial(rows, chunks) ==
    [status |-> "returned", df_raw |-> rows, df_pivot |-> chunks]

\* What the caller of build_dataframes_from_widget_payload gets when an
\* exception leaves it: nothing is caught in lines 369-437.
OnRaise(rows, chunks) == NoResult

\* Lines 373-379, 145-153: the fetch of the entity in turn begins.
FetchStart ==
    /\ pc = "entity"
    /\ ei <= Len(p.entities)
    /\ t_chunk' = p.startTs
    /\ merged' = <<>>
    /\ nreq' = 0
    /\ pc' = "request"
    /\ UNCHANGED <<resampleVars, p, source, ei, status, data, raw_rows,
                   returned, err>>

\* Lines 127-128: the request of the sub-range in turn, and its response.
Request ==
    /\ pc = "request"
    /\ \E st \in {200, 401, 500} :
          /\ status' = st
          /\ pc' = IF NeedsRefresh(st) THEN "refresh" ELSE "check"
    /\ nreq' = 1
    /\ UNCHANGED <<resampleVars, p, source, ei, t_chunk, merged, data, raw_rows,
                   returned, err>>

\* Lines 129-136: the token is refreshed and the request sent again.
Retry ==
    /\ pc = "refresh"
    /\ \E st \in {200, 401, 500} : status' = st
    /\ nreq' = nreq + 1
    /\ pc' = "check"
    /\ UNCHANGED <<resampleVars, p, source, ei, t_chunk, merged, data, raw_rows,
                   returned, err>>

\* Line 135: get_jwt raises.
RefreshFails ==
    /\ pc = "refresh"
    /\ pc' = "raised"
    /\ err' = "get_jwt"
    /\ returned' = OnRaise(raw_rows, merged)
    /\ UNCHANGED <<resampleVars, p, source, ei, t_chunk, merged, nreq, status,
                   data, raw_rows>>

\* Lines 137-139: raise_for_status raises.
RaiseForStatus ==
    /\ pc = "check"
    /\ ~Ok(status)
    /\ pc' = "raised"
    /\ err' = "HTTPError"
    /\ returned' = OnRaise(raw_rows, merged)
    /\ UNCHANGED <<resampleVars, p, source, ei, t_chunk, merged, nreq, status,
                   data, raw_rows>>

\* Lines 140, 160-163: the response of a sub-range is merged; the next
\* sub-range is due, or the merged series is returned.
ReceiveChunk ==
    /\ pc = "check"
    /\ Ok(status)
    /\ Chunked(p)
    /\ merged' = MergeChunk(merged,
                            Limited(SourceResponse(source, p.entities[ei].id,
                                                   p.keys, t_chunk, chunk_end),
                                    p.limit))
    /\ t_chunk' = chunk_end
    /\ IF chunk_end < p.endTs
       THEN /\ pc' = "request"
            /\ nreq' = 0
            /\ data' = data
       ELSE /\ pc' = "unify"
            /\ nreq' = nreq
            /\ data' = merged'
    /\ UNCHANGED <<resampleVars, p, source, ei, status, raw_rows, returned, err>>

\* Lines 140, 165-168: the response of the unsplit request is returned.
ReceiveSingle ==
    /\ pc = "check"
    /\ Ok(status)
    /\ ~Chunked(p)
    /\ data' = Limited(SourceResponse(source, p.entities[ei].id, p.keys,
                                      p.startTs, p.endTs),
                       p.limit)
    /\ pc' = "unify"
    /\ UNCHANGED <<resampleVars, p, source, ei, t_chunk, merged, nreq, status,
                   raw_rows, returned, err>>

\* Line 380: raw_rows.extend(_to_raw_rows(e["name"], data)).
Unify ==
    /\ pc = "unify"
    /\ raw_rows' = raw_rows \o _to_raw_rows(p.entities[ei].name, data)
    /\ ei' = ei + 1
    /\ pc' = "entity"
    /\ UNCHANGED <<resampleVars, p, source, t_chunk, merged, nreq, status, data,
                   returned, err>>

\* Lines 382-384: nothing was fetched.
ReturnEmpty ==
    /\ pc = "entity"
    /\ ei > Len(p.entities)
    /\ raw_rows = <<>>
    /\ returned' = EmptyTables
    /\ pc' = "done"
    /\ UNCHANGED <<resampleVars, p, source, ei, t_chunk, merged, nreq, status,
                   data, raw_rows, err>>

\* Lines 386-426 and 437: the tables are built and returned.
Build ==
    /\ pc = "entity"
    /\ ei > Len(p.entities)
    /\ raw_rows # <<>>
    /\ ~MissingKey(raw_rows, p)
    /\ returned' = Tables(raw_rows, p)
    /\ pc' = "done"
    /\ UNCHANGED <<resampleVars, p, source, ei, t_chunk, merged, nreq, status,
                   data, raw_rows, err>>

\* Line 415: pivot_table raises KeyError.
BuildKeyError ==
    /\ pc = "entity"
    /\ ei > Len(p.entities)
    /\ raw_rows # <<>>
    /\ MissingKey(raw_rows, p)
    /\ pc' = "raised"
    /\ err' = "KeyError"
    /\ returned' = OnRaise(raw_rows, merged)
    /\ UNCHANGED <<resampleVars, p, source, ei, t_chunk, merged, nreq, status,
                   data, raw_rows>>

Next ==
    \/ FetchStart
    \/ Request
    \/ Retry
    \/ RefreshFails
    \/ RaiseForStatus
    \/ ReceiveChunk
    \/ ReceiveSingle
    \/ Unify
    \/ ReturnEmpty
    \/ Build
    \/ BuildKeyError

Spec == Init /\ [][Next]_vars

----------------------------------------------------------------------------
(* _parse_payload and the fetch of the first entity (lines 370-379), on    *)
(* payloads at the backend limits.                                         *)

\* A payload as the caller sends it.
Payload(s, e, ents, ks, a, iv, lim) ==
    [timezone |-> "Asia/Bangkok", startTs |-> s, endTs |-> e, entities |-> ents,
     keys |-> ks, agg |-> a, interval |-> iv, order |-> "ASC",
     column_map |-> <<>>, limit |-> lim]

\* One entity and key, 1 ms intervals, 15 sub-ranges of 700 intervals, no limit.
DensePayload ==
    Payload(0,
            (MAX_POINTS_PER_KEY_PER_ENTITY \div _MAX_INTERVALS_PER_REQUEST + 1)
                * _MAX_INTERVALS_PER_REQUEST,
            <<[id |-> "e1", name |-> "asset1"]>>, <<"key1">>, "AVG", 1, 0)

\* One entity and one key more than the limits, a limit above the limit.
WidePayload ==
    Payload(0, 1400,
            [i \in 1..(MAX_ENTITIES + 1) |->
                [id |-> "e" \o ToString(i), name |-> "asset" \o ToString(i)]],
            [j \in 1..(MAX_KEYS + 1) |-> "key" \o ToString(j)],
            "NONE", 0, 2 * MAX_POINTS_PER_KEY_PER_ENTITY)

\* A limit of one point, for an unsplit and for a split range.
NarrowPayloads ==
    {Payload(0, e, <<[id |-> "e1", name |-> "asset1"]>>, <<"key1", "key2">>,
             a, 2, 1) : e \in {1400, 2800}, a \in {"NONE", "AVG"}}

CapPayloads == {DensePayload, WidePayload} \cup NarrowPayloads

\* What the source holds for a payload: a point at every ms of the dense
\* range, a point at 0 for the wide payload, points on both sides of the seam
\* at 1400 for the narrow ones.
CapSource(payload) ==
    [x \in {<<payload.entities[i].id, payload.keys[j]>> :
               i \in 1..Len(payload.entities), j \in 1..Len(payload.keys)} |->
        IF payload = DensePayload
        THEN {[ts |-> t, value |-> Num(1)] : t \in payload.startTs..payload.endTs}
        ELSE IF payload = WidePayload
        THEN {[ts |-> 0, value |-> Num(1)]}
        ELSE {[ts |-> t, value |-> Num(1)] : t \in {0, 1399, 1401}}]

InitCaps ==
    /\ \E payload \in CapPayloads :
          /\ p = _parse_payload(payload)
          /\ source = CapSource(payload)
    /\ pc = "entity"
    /\ ei = 1
    /\ t_chunk = 0
    /\ merged = <<>>
    /\ nreq = 0
    /\ status = 0
    /\ data = <<>>
    /\ raw_rows = <<>>
    /\ returned = NoResult
    /\ err = ""
    /\ ResampleIdle

\* _fetch_timeseries for the first entity, up to its return.
NextCaps ==
    \/ FetchStart
    \/ Request
    \/ Retry
    \/ RefreshFails
    \/ RaiseForStatus
    \/ ReceiveChunk
    \/ ReceiveSingle

SpecCaps == InitCaps /\ [][NextCaps]_vars

----------------------------------------------------------------------------
(* The pivot builder alone (lines 382-426), on raw rows drawn from bounded *)
(* sets: the run stands where every entity has been fetched.               *)

\* Entity labels with and without a space; two entities share a label.
PivotEntities ==
    <<[id |-> "e1", name |-> "A"], [id |-> "e2", name |-> "A B"],
      [id |-> "e3", name |-> "A"]>>

\* The keys of p["column_map"], in the map's order.
ColumnMaps ==
    {<<>>,
     <<ColName("A", "Z"), ColName("A B", "C")>>,
     <<"x y", ColName("A", "C")>>}

\* With a 2 ms interval a range of 1405 ms is fetched in the chunks
\* [s, s + 1400] and [s + 1400, s + 1405].
PivotPayloads ==
    {[timezone |-> "Asia/Bangkok", startTs |-> s, endTs |-> s + 1405,
      entities |-> PivotEntities, keys |-> <<"C", "Z">>, agg |-> m[1],
      interval |-> m[2], order |-> o, column_map |-> cm] :
        s \in {0, 1}, m \in {<<"NONE", 0>>, <<"AVG", 2>>},
        o \in {"ASC", "DESC"}, cm \in ColumnMaps}

\* The cells of a raw row: a value of C, a value or a null of Z, or both.
PivotCells ==
    {[k \in {"C"} |-> v] : v \in {Num(1), Num(2)}}
        \cup {[k \in {"Z"} |-> v] : v \in {Num(1), NaN}}
        \cup {[k \in {"C", "Z"} |-> IF k = "C" THEN v ELSE w] :
                 v \in {Num(1), Num(2)}, w \in {Num(1), NaN}}

PivotRows ==
    {[ts |-> t, entity |-> PivotEntities[i].name, cells |-> c] :
        t \in {1, 2, 1404, 1405}, i \in 1..Len(PivotEntities), c \in PivotCells}

SeqsUpTo(S, n) == UNION {[1..k -> S] : k \in 0..n}

InitPivot ==
    /\ p \in PivotPayloads
    /\ raw_rows \in SeqsUpTo(PivotRows, MaxRawRows)
    /\ source = EmptyMap
    /\ pc = "entity"
    /\ ei = Len(p.entities) + 1
    /\ t_chunk = 0
    /\ merged = <<>>
    /\ nreq = 0
    /\ status = 0
    /\ data = <<>>
    /\ returned = NoResult
    /\ err = ""
    /\ ResampleIdle

NextPivot ==
    \/ ReturnEmpty
    \/ Build
    \/ BuildKeyError

SpecPivot == InitPivot /\ [][NextPivot]_vars

----------------------------------------------------------------------------
(* The row unifier and the pivot builder (lines 380-426) on the fetch      *)
(* result of one entity, drawn from bounded sets: chunks may overlap, so a *)
(* series may hold a timestamp twice, and a point may lack its timestamp.  *)

UnifyPayloads ==
    {[timezone |-> "Asia/Bangkok", startTs |-> 0, endTs |-> 1405,
      entities |-> <<[id |-> "e1", name |-> "A"]>>, keys |-> <<"C", "Z">>,
      agg |-> "NONE", interval |-> 0, order |-> o, column_map |-> <<>>] :
        o \in {"ASC", "DESC"}}

UnifyPoints == {[ts |-> t, value |-> Num(v)] : t \in {NoTs, 1, 2}, v \in 1..MaxVal}

\* The dict of a response: no key, one key, or both keys in either order.
UnifySeries ==
    LET S == SeqsUpTo(UnifyPoints, MaxSeries)
    IN  {<<>>}
           \cup {<< <<k, pts>> >> : k \in {"C", "Z"}, pts \in S}
           \cup {<< <<k[1], pts>>, <<k[2], qts>> >> :
                    k \in {<<"C", "Z">>, <<"Z", "C">>}, pts \in S, qts \in S}

InitUnify ==
    /\ p \in UnifyPayloads
    /\ data \in UnifySeries
    /\ raw_rows = <<>>
    /\ source = EmptyMap
    /\ pc = "unify"
    /\ ei = 1
    /\ t_chunk = 0
    /\ merged = <<>>
    /\ nreq = 0
    /\ status = 0
    /\ returned = NoResult
    /\ err = ""
    /\ ResampleIdle

NextUnify ==
    \/ Unify
    \/ ReturnEmpty
    \/ Build
    \/ BuildKeyError

SpecUnify == InitUnify /\ [][NextUnify]_vars

----------------------------------------------------------------------------
(* Claims about the period resampler, checked under SpecResample. *)

data_start == Min(DOMAIN df_pivot)
data_end == Max(DOMAIN df_pivot)

\* The calendar period that starts on day dt: its last day.
LastDayOfPeriod(key, dt) ==
    CASE key = "daily" -> dt
      [] key = "weekly" -> dt + 6
      [] key = "monthly" -> dt + DaysInMonth(YearOfDay[dt], MonthOfDay[dt]) - 1
      [] key = "yearly" -> dt + DaysInYear(YearOfDay[dt]) - 1

\* C1: every emitted row of every granularity is a fully covered period: the
\* period, from the first instant of its first day to the last second of its
\* last day, lies inside [earliest pivot timestamp, latest pivot timestamp].
C1_FullyCovered ==
    \A key \in DOMAIN agg_sheets : \A dt \in DOMAIN agg_sheets[key] :
        /\ data_start <= dt * DaySec
        /\ LastDayOfPeriod(key, dt) * DaySec + (DaySec - 1) <= data_end

\* C2: when the earliest pivot timestamp is not midnight, no granularity has a
\* row dated on the day of that timestamp.
C2_FirstDayExcluded ==
    data_start # normalize(data_start) =>
        \A key \in DOMAIN agg_sheets :
            date(data_start) \notin DOMAIN agg_sheets[key]

\* C2 witness: the data starts 2026-01-01 12:00 and the first daily row is
\* dated 2026-01-02.
C2_Witness ==
    /\ data_start = Stamp(0, 43200)
    /\ "daily" \in DOMAIN agg_sheets
    /\ Min(DOMAIN agg_sheets["daily"]) = 1

\* C3 as stated: data spanning less than one day (24 h) leaves the result
\* mapping without any granularity key.
C3_Original ==
    (fi > Len(Freqs) /\ data_end - data_start < DaySec) => DOMAIN agg_sheets = {}

\* C3 amended: data spanning less than 23:59:59 leaves the result mapping
\* without any granularity key.
C3_ShortSpanOmitsAll ==
    data_end - data_start < DaySec - 1 => DOMAIN agg_sheets = {}

\* C3 witness: a span of ten hours across midnight, the loop over and no key
\* in the result mapping.
C3_Witness ==
    /\ fi > Len(Freqs)
    /\ data_end - data_start = 36000
    /\ date(data_start) # date(data_end)
    /\ DOMAIN agg_sheets = {}

\* The pivot rows inside the calendar window of the row dated dt.
Window(key, dt) ==
    {t \in DOMAIN df_pivot : dt <= date(t) /\ date(t) <= LastDayOfPeriod(key, dt)}

\* v is func of the non-NaN cells of column col in the rows W: NaN when there
\* is none, except that the sum of none is 0.
IsFuncOfCells(v, func, W, col) ==
    LET P == {t \in W : df_pivot[t][col] # NaN}
        val == [t \in P |-> df_pivot[t][col].num]
    IN  IF P = {} THEN v = (IF func = "sum" THEN Num(0) ELSE NaN)
        ELSE CASE func = "first" ->
                    \E t \in P : v = df_pivot[t][col] /\ \A u \in P : t <= u
               [] func = "last" ->
                    \E t \in P : v = df_pivot[t][col] /\ \A u \in P : u <= t
               [] func = "min" ->
                    v.den = 1 /\ (\E t \in P : v.num = val[t])
                              /\ (\A t \in P : v.num <= val[t])
               [] func = "max" ->
                    v.den = 1 /\ (\E t \in P : v.num = val[t])
                              /\ (\A t \in P : val[t] <= v.num)
               [] func = "sum" -> v.den = 1 /\ v.num = SumOf(val, P)
               [] func = "mean" ->
                    v.den > 0 /\ v.num * Cardinality(P) = v.den * SumOf(val, P)

\* v is func of the cells of column col in the rows W, taken as the claim
\* reads: "first" and "last" are the cell of the earliest and of the latest row
\* of W, whatever it holds.
IsFuncOfRows(v, func, W, col) ==
    IF func \in {"first", "last"}
    THEN IF W = {} THEN v = NaN
         ELSE v = df_pivot[IF func = "first" THEN Min(W) ELSE Max(W)][col]
    ELSE IsFuncOfCells(v, func, W, col)

\* C4 as stated: every daily, weekly and monthly cell is the column's function
\* of exactly the pivot rows in the row's calendar window; with "last" it is
\* the cell of the latest pivot row in the window.
C4_Original ==
    \A key \in DOMAIN agg_sheets \cap {"daily", "weekly", "monthly"} :
        \A dt \in DOMAIN agg_sheets[key] : \A col \in DOMAIN agg_dict :
            IsFuncOfRows(agg_sheets[key][dt][col], agg_dict[col],
                         Window(key, dt), col)

\* C4 amended: every daily, weekly and monthly cell is the column's function of
\* the non-NaN cells of that column in exactly the pivot rows of the row's
\* calendar window (NaN when there is none, 0 for sum); with "last" it is the
\* latest non-NaN cell.
C4_AggOverWindow ==
    \A key \in DOMAIN agg_sheets \cap {"daily", "weekly", "monthly"} :
        \A dt \in DOMAIN agg_sheets[key] : \A col \in DOMAIN agg_dict :
            IsFuncOfCells(agg_sheets[key][dt][col], agg_dict[col],
                          Window(key, dt), col)

\* C4 witness: a weekly row under "last" whose window holds two rows with
\* different cells of the column, next to a daily and a monthly row.
C4_Witness ==
    /\ DOMAIN agg_sheets = {"daily", "weekly", "monthly"}
    /\ \E dt \in DOMAIN agg_sheets["weekly"] : \E col \in DOMAIN agg_dict :
          /\ agg_dict[col] = "last"
          /\ \E t, u \in Window("weekly", dt) :
                /\ t < u
                /\ df_pivot[t][col] # NaN
                /\ df_pivot[u][col] # NaN
                /\ df_pivot[t][col] # df_pivot[u][col]
                /\ agg_sheets["weekly"][dt][col] = df_pivot[u][col]

\* The (asset, key) pairs of the pivot columns.
ColumnPairs ==
    {ak \in {"asset1"} \X {"key1", "key2"} :
        ColName(ak[1], ak[2]) \in DOMAIN agg_dict}

\* C5: the function applied to column "<entity> <metric>" is the aggregation
\* map's entry for the metric key, else the map's "default" entry, else mean.
C5_FuncByMetricKey ==
    \A ak \in ColumnPairs :
        agg_dict[ColName(ak[1], ak[2])] =
            (IF ak[2] \in DOMAIN agg_map THEN agg_map[ak[2]]
             ELSE IF "default" \in DOMAIN agg_map THEN agg_map["default"]
             ELSE "mean")

\* The configured week-start day as a weekday number (Monday = 0).
WeekStartDay ==
    IF "week_start" \in DOMAIN sheets_cfg /\ sheets_cfg["week_start"] = "Monday"
    THEN 0 ELSE 6

\* C6: a weekly row is dated on the configured week-start day, the first day of
\* its window; a daily row on its day, a monthly row on the first of the month,
\* a yearly row on January 1.
C6_KeyedByPeriodStart ==
    \A key \in DOMAIN agg_sheets : \A dt \in DOMAIN agg_sheets[key] :
        /\ key = "daily" => date(data_start) <= dt /\ dt <= date(data_end)
        /\ key = "weekly" => weekday(dt) = WeekStartDay
        /\ key = "monthly" => dt = MonthStartDay[<<YearOfDay[dt], MonthOfDay[dt]>>]
        /\ key = "yearly" => dt = YearStartDay[YearOfDay[dt]]

\* C6 witness: the week starts on Monday and all four granularities have a row.
C6_Witness ==
    /\ WeekStartDay = 0
    /\ DOMAIN agg_sheets = {"daily", "weekly", "monthly", "yearly"}

----------------------------------------------------------------------------
(* Claims about the fetch and the pivot builder, checked under Spec. *)

\* C7: the series merged from the sub-ranges of a split range equals the
\* response of one request over the whole range, a point on a chunk seam
\* included.
C7_MergedEqualsUnsplit ==
    (pc = "unify" /\ Chunked(p)) =>
        data = SourceResponse(source, p.entities[ei].id, p.keys,
                              p.startTs, p.endTs)

\* C8 as stated: any non-success response is retried once, so that a response
\* about to be raised is the second of its sub-range.
C8_Original == (pc = "check" /\ ~Ok(status)) => nreq = 2

\* C8 amended: only a 401 response to the first request of a sub-range makes
\* the credential be refreshed and, if the refresh does not fail, the request
\* be sent once more; any other non-success response, and a non-success
\* response to the retry, raises; no sub-range gets more than two requests.
C8_RetryOnlyOn401 ==
    [][/\ nreq' <= 2
       /\ pc = "request" => pc' = (IF status' = 401 THEN "refresh" ELSE "check")
       /\ pc' = "refresh" => (status' = 401 /\ nreq' = 1)
       /\ pc = "refresh" => \/ (pc' = "check" /\ nreq' = 2)
                            \/ (pc' = "raised" /\ nreq' = 1)
       /\ pc = "check" => IF Ok(status) THEN pc' \in {"request", "unify"}
                          ELSE pc' = "raised" /\ nreq' = nreq
      ]_vars

\* C8 witness: the retry was answered with a failure and the fetch raised.
C8_Witness == pc = "raised" /\ err = "HTTPError" /\ nreq = 2

\* C9: a run that raised returned nothing, whatever was fetched before; tables
\* are returned only by a run that fetched every entity.
C9_NoPartialResult ==
    /\ pc = "raised" => returned = NoResult
    /\ returned # NoResult => (pc = "done" /\ ei > Len(p.entities))

\* C9 witness: a sub-range of the second entity failed after rows of the first
\* entity and a chunk of the second had been fetched.
C9_Witness ==
    /\ pc = "raised"
    /\ err = "HTTPError"
    /\ ei = 2
    /\ raw_rows # <<>>
    /\ merged # <<>>

\* The instant (ms) of a wall-clock timestamp of the tables.
Instant(ts) == ts - WallClock(0, p.timezone)

\* The pivot timestamp the claim gives a raw timestamp.
Snapped(ts) ==
    IF p.agg # "NONE" /\ p.interval # 0 THEN ts - (ts % p.interval) ELSE ts

\* The raw rows that hold a value.
ValuedRows ==
    {i \in 1..Len(raw_rows) :
        \E k \in DOMAIN raw_rows[i].cells : raw_rows[i].cells[k] # NaN}

\* C10: in the returned tables every pivot timestamp is the raw timestamp less
\* (raw timestamp mod I), a multiple of I, when aggregation is active and an
\* interval I is set, and the raw timestamp itself otherwise; the raw table
\* keeps the timestamps of the API.
C10_Snapping ==
    (pc = "done" /\ raw_rows # <<>>) =>
        /\ Len(returned.df_raw) = Len(raw_rows)
        /\ {<<Instant(returned.df_raw[i].Timestamp), returned.df_raw[i].Asset>> :
               i \in 1..Len(raw_rows)}
             = {<<raw_rows[i].ts, raw_rows[i].entity>> : i \in 1..Len(raw_rows)}
        /\ {Instant(returned.df_pivot[i].Timestamp) :
               i \in 1..Len(returned.df_pivot)}
             = {Snapped(raw_rows[i].ts) : i \in ValuedRows}
        /\ (p.agg # "NONE" /\ p.interval # 0) =>
              \A i \in 1..Len(returned.df_pivot) :
                  Instant(returned.df_pivot[i].Timestamp) % p.interval = 0

\* C10 witness: aggregation is active, a raw row stamped 1399 is in the raw
\* table and its pivot row is stamped 1398.
C10_Witness ==
    /\ pc = "done"
    /\ p.agg # "NONE" /\ p.interval = 2
    /\ \E i \in 1..Len(returned.df_raw) :
          Instant(returned.df_raw[i].Timestamp) = 1399
    /\ \E i \in 1..Len(returned.df_pivot) :
          Instant(returned.df_pivot[i].Timestamp) = 1398
----------------------------------------------------------------------------
(* Claims about the pivot builder, checked under SpecPivot. *)

\* The starts t of the requests _fetch_timeseries sends (lines 153-162).
ChunkStarts ==
    IF Chunked(p)
    THEN {p.startTs + k * chunk_ms(p) :
             k \in 0..((p.endTs - p.startTs - 1) \div chunk_ms(p))}
    ELSE {p.startTs}

\* The end of the request that starts at t (lines 155, 165-168).
ChunkEndOf(t) ==
    IF Chunked(p) THEN Min({t + chunk_ms(p), p.endTs}) ELSE p.endTs

\* The midpoint label of the bucket [bs, min(bs + I, ce)) of a request that
\* ends at ce.
Midpoint(bs, ce) == bs + ((Min({bs + p.interval, ce}) - bs) \div 2)

\* The starts of the buckets, laid out from a request's start in steps of I,
\* whose midpoint label is ts.
BucketStarts(ts) ==
    {bs \in (ts - p.interval + 1)..ts :
        \E t \in ChunkStarts :
            /\ t <= bs /\ bs < ChunkEndOf(t)
            /\ (bs - t) % p.interval = 0
            /\ Midpoint(bs, ChunkEndOf(t)) = ts}

\* C11: when aggregation is active and every raw timestamp is the midpoint
\* label of a bucket of its request, every pivot timestamp is the start of
\* that bucket, also when startTs is no multiple of I and for the truncated
\* last bucket.
C11_BucketStart ==
    (/\ pc = "done"
     /\ Active(p)
     /\ raw_rows # <<>>
     /\ \A i \in 1..Len(raw_rows) : BucketStarts(raw_rows[i].ts) # {}) =>
        {returned.df_pivot[i].Timestamp - WallClock(0, p.timezone) :
            i \in 1..Len(returned.df_pivot)}
          = UNION {BucketStarts(raw_rows[i].ts) :
                      i \in {j \in 1..Len(raw_rows) :
                                \E k \in DOMAIN raw_rows[j].cells :
                                    raw_rows[j].cells[k] # NaN}}

\* The raw rows in the order perm, a permutation of their positions.
Reordered(rows, perm) == [i \in 1..Len(rows) |-> rows[perm[i]]]

\* C12: the pivot built from the same raw rows in any other order has the
\* same column order and the same cells, also when rows of one entity label
\* meet at one pivot timestamp with different values of a metric.
C12_OrderIndependent ==
    (pc = "done" /\ raw_rows # <<>>) =>
        \A perm \in Permutations(1..Len(raw_rows)) :
            LET other == Tables(Reordered(raw_rows, perm), p)
            IN  /\ other.columns = returned.columns
                /\ other.df_pivot = returned.df_pivot

\* The columns the returned pivot holds.
Observed ==
    UNION {DOMAIN returned.df_pivot[i].cells : i \in 1..Len(returned.df_pivot)}

\* The entity name and the metric key a column was named from (line 416).
EntityMetric(c) ==
    CHOOSE x \in {p.entities[i].name : i \in 1..Len(p.entities)}
                    \X {p.keys[j] : j \in 1..Len(p.keys)} :
        ColName(x[1], x[2]) = c

\* Column c comes before column d by entity name, then by metric key.
EntityThenMetric(c, d) ==
    PairLess(<<Chars[EntityMetric(c)[1]], Chars[EntityMetric(c)[2]]>>,
             <<Chars[EntityMetric(d)[1]], Chars[EntityMetric(d)[2]]>>)

\* C13: the pivot's columns are Timestamp, then the column-map keys that are
\* observed columns in the map's order, then the other observed columns by
\* entity name and then by metric key.
C13_ColumnOrder ==
    (pc = "done" /\ raw_rows # <<>>) =>
        LET cols == returned.columns
            mapped == SelectSeq(p.column_map, LAMBDA c : c \in Observed)
            n == Len(mapped)
        IN  /\ Len(cols) = 1 + Cardinality(Observed)
            /\ cols[1] = "Timestamp"
            /\ SubSeq(cols, 2, n + 1) = mapped
            /\ {cols[i] : i \in (n + 2)..Len(cols)}
                 = Observed \ {mapped[i] : i \in 1..n}
            /\ \A i, j \in (n + 2)..Len(cols) :
                  i < j => EntityThenMetric(cols[i], cols[j])

----------------------------------------------------------------------------
(* Further claims about the whole run, checked under Spec. *)

\* The rows of tbl are in the order of p["order"] by Timestamp.
SortedAs(tbl, order) ==
    \A i, j \in 1..Len(tbl) :
        i < j => IF order = "DESC"
                 THEN tbl[i].Timestamp >= tbl[j].Timestamp
                 ELSE tbl[i].Timestamp <= tbl[j].Timestamp

\* C14: the returned pivot table and the returned raw table are both sorted by
\* timestamp, ascending for ASC, descending for DESC.
C14_BothSorted ==
    (pc = "done" /\ raw_rows # <<>>) =>
        /\ SortedAs(returned.df_pivot, p.order)
        /\ SortedAs(returned.df_raw, p.order)

\* C15: a requested key without any point while another key has data, and an
\* entity without any point, never make the run fail: no run whose requests
\* all succeeded ends with an exception.
C15_ShapeNeverFails == ~(pc = "raised" /\ err = "KeyError")

\* The points of key k in a KeyedSeries.
SeriesOf(dict, k) ==
    IF k \in KeysOf(dict)
    THEN dict[CHOOSE i \in 1..Len(dict) : dict[i][1] = k][2]
    ELSE <<>>

\* The points of key k the source returns to a request of the entity in turn
\* for [from, to].
Answer(k, from, to) ==
    SortedByTs({pt \in source[<<p.entities[ei].id, k>>] :
                   from <= pt.ts /\ pt.ts <= to})

\* The range is split: aggregation is active and the interval count exceeds
\* 700.
Split ==
    /\ p.agg # "NONE"
    /\ p.interval # 0
    /\ p.endTs - p.startTs > 700 * p.interval

\* C16: a split range is requested in the sub-ranges [t, min(t + 700 I, endTs)],
\* the first from startTs and each next one from the end of the one before,
\* one after another; every accepted response is appended key by key to the
\* merged series; the fetch returns when a sub-range ends at endTs, which it
\* does after finitely many steps since t grows; a range that is not split is
\* requested once, whole.
C16_ChunkSequence ==
    [][/\ (pc = "entity" /\ pc' = "request") =>
             (t_chunk' = p.startTs /\ merged' = <<>>)
       /\ pc' = "request" => (pc = "entity" \/ (pc = "check" /\ Ok(status)))
       /\ pc = "request" => (pc' \in {"refresh", "check"} /\ t_chunk' = t_chunk)
       /\ pc = "refresh" => t_chunk' = t_chunk
       /\ (pc = "check" /\ pc' \in {"request", "unify"}) =>
             IF Split
             THEN LET sub_end == Min({t_chunk + 700 * p.interval, p.endTs})
                  IN  /\ t_chunk' = sub_end
                      /\ t_chunk' > t_chunk
                      /\ \A j \in 1..Len(p.keys) :
                            SeriesOf(merged', p.keys[j])
                              = SeriesOf(merged, p.keys[j])
                                  \o Answer(p.keys[j], t_chunk, sub_end)
                      /\ pc' = "unify" <=> sub_end = p.endTs
                      /\ pc' = "unify" => data' = merged'
             ELSE /\ pc' = "unify"
                  /\ t_chunk = p.startTs
                  /\ \A j \in 1..Len(p.keys) :
                        SeriesOf(data', p.keys[j])
                          = Answer(p.keys[j], p.startTs, p.endTs)
      ]_vars

\* C16 witness: a range of 1400 intervals was fetched in two sub-ranges and
\* the merged series, which holds points, is returned.
C16_Witness ==
    /\ pc = "unify"
    /\ Split
    /\ p.endTs - p.startTs = 2 * 700 * p.interval
    /\ t_chunk = p.endTs
    /\ data = merged
    /\ \E i \in 1..Len(merged) : Len(merged[i][2]) >= 2

----------------------------------------------------------------------------
(* Claims about the row unifier, checked under SpecUnify. *)

\* The positions <<key index, point index>> of the points of data, those of
\* the points stamped ts, and the order in which the loop of _to_raw_rows
\* meets them.
Positions ==
    UNION {{<<i, j>> : j \in 1..Len(data[i][2])} : i \in 1..Len(data)}

PointsAt(ts) == {x \in Positions : data[x[1]][2][x[2]].ts = ts}

Before(x, y) == x[1] < y[1] \/ (x[1] = y[1] /\ x[2] < y[2])

FirstAt(ts) == CHOOSE x \in PointsAt(ts) : \A y \in PointsAt(ts) \ {x} : Before(x, y)

\* The last point of key k stamped ts.
LastOf(k, ts) ==
    LET P == {x \in PointsAt(ts) : data[x[1]][1] = k}
    IN  CHOOSE x \in P : \A y \in P \ {x} : Before(y, x)

\* The timestamps of data, the missing one apart.
Stamps == {data[x[1]][2][x[2]].ts : x \in Positions} \ {NoTs}

\* C17: the rows of one entity's KeyedSeries are one row per distinct
\* timestamp that is not missing, in the order the timestamps first appear; a
\* row holds, for every key that has a point at its timestamp and for no
\* other key, the value of the key's last point there.
C17_OneRowPerStamp ==
    (pc = "entity" /\ ei = 2) =>
        /\ Len(raw_rows) = Cardinality(Stamps)
        /\ \A i \in 1..Len(raw_rows) :
              LET r == raw_rows[i]
              IN  /\ r.ts # NoTs
                  /\ PointsAt(r.ts) # {}
                  /\ r.entity = p.entities[1].name
                  /\ DOMAIN r.cells = {data[x[1]][1] : x \in PointsAt(r.ts)}
                  /\ \A k \in DOMAIN r.cells :
                        r.cells[k]
                          = data[LastOf(k, r.ts)[1]][2][LastOf(k, r.ts)[2]].value
        /\ \A i, j \in 1..Len(raw_rows) :
              i < j => Before(FirstAt(raw_rows[i].ts), FirstAt(raw_rows[j].ts))

\* C17 witness: the unified series holds a timestamp twice for one key with
\* different values, a point of another key without timestamp, and the row of
\* the repeated timestamp holds two keys.
C17_Witness ==
    /\ pc = "entity"
    /\ ei = 2
    /\ \E x, y \in Positions :
          /\ x[1] = y[1] /\ x[2] < y[2]
          /\ data[x[1]][2][x[2]].ts # NoTs
          /\ data[x[1]][2][x[2]].ts = data[y[1]][2][y[2]].ts
          /\ data[x[1]][2][x[2]].value # data[y[1]][2][y[2]].value
    /\ \E x \in Positions : data[x[1]][2][x[2]].ts = NoTs
    /\ \E i \in 1..Len(raw_rows) : Cardinality(DOMAIN raw_rows[i].cells) = 2

----------------------------------------------------------------------------
(* Claims about the backend limits, checked under SpecCaps. *)

\* C18: no run fetches more than 500 entities, requests more than 100 keys or
\* holds more than 10,000 points of one key of one entity, a fetch that is
\* split into sub-ranges included.
C18_Capped ==
    /\ Len(p.entities) <= MAX_ENTITIES
    /\ Len(p.keys) <= MAX_KEYS
    /\ \A i \in 1..Len(merged) :
          Len(merged[i][2]) <= MAX_POINTS_PER_KEY_PER_ENTITY
    /\ \A i \in 1..Len(data) :
          Len(data[i][2]) <= MAX_POINTS_PER_KEY_PER_ENTITY

====
